---------------------------- MODULE Spec2Model ----------------------------
(***************************************************************************)
(* Model of youtube_scraper.py: the watch-history extractor                *)
(* (extract_data_from_html), the metadata enricher (extract_data_from_api) *)
(* and their helper functions.                                             *)
(*                                                                         *)
(* Text is modelled as a sequence of tokens.  A token is a TLA+ string     *)
(* standing for one character or for one fixed literal of the source       *)
(* ("https://", "www.", "youtube.com/watch?v=", a column name, ...).       *)
(* A csv cell is a sequence of tokens, the csv file is the sequence of     *)
(* tokens on disk: cells separated by "," and lines ended by CR LF (the    *)
(* csv module) or LF (pandas).  File offsets and the read buffer count     *)
(* tokens.  None is the empty sequence where the csv module would write    *)
(* it as an empty cell, and an optional value is a sequence of length      *)
(* at most one elsewhere.                                                  *)
(***************************************************************************)
EXTENDS Integers, Sequences, FiniteSets, TLC

VARIABLES
    doc,          \* the parsed html: the sequence of content-cell containers
    vi,           \* extract_data_from_html: index of the next container
    videos_data,  \* extract_data_from_html: the records collected so far
    file,         \* the csv file on disk (tokens)
    log,          \* what logging recorded, in order
    pc,           \* where the program is
    service,      \* the remote service: identifier -> outcome of the lookup
    rpos,         \* the csv reader's file: offset of the next raw read
    rbuf,         \* the csv reader's file: tokens read and not yet consumed
    seen,         \* the video_url of every row the loop has iterated over
    before,       \* the file as it was when the current row was yielded
    cur,          \* the row being processed: <<video_url>> or <<>>
    run,          \* 1 in the first enrichment pass, 2 in the second
    file0,        \* the file as extract_data_from_html wrote it
    file1,        \* the file as the first enrichment pass left it
    rnames,       \* the DictReader's fieldnames: <<cells>> once read
    last,         \* how the latest loop body ended
    raw,          \* clean_date_time: the argument
    cleaned       \* clean_date_time: the result, <<r>> once computed

vars == <<doc, vi, videos_data, file, log, pc, service, rpos, rbuf, seen,
          before, cur, run, file0, file1, rnames, last, raw, cleaned>>

---------------------------------------------------------------------------
(* Bounds of the model *)

MaxContainers == 3   \* containers in a document given to the extractor
MaxRows == 2         \* containers in a document given to the whole pipeline
MaxRawLen == 4       \* tokens in an argument of clean_date_time
BufSize == 57        \* tokens one raw read of the reader's file returns

---------------------------------------------------------------------------
(* Tokens *)

CR == "\r"
LF == "\n"
COMMA == ","
NNBSP == "u202F"                 \* U+202F, the non-ASCII space of the export
NonAscii == {NNBSP}              \* tokens with ord(char) >= 128
Whitespace == {" ", NNBSP}       \* what str.strip() removes
HTTPS == "https://"
HTTP == "http://"
WWW == "www."
MOBILE == "m."
HOST == "youtube.com/watch?v="
IdChars == {"a", "b", "_", "-", "7"}   \* members of [a-zA-Z0-9_-]

\* "https://www.youtube.com/watch?v="
WatchPrefix == <<HTTPS, WWW, HOST>>

---------------------------------------------------------------------------
(* Python string operations, on token sequences *)

\* sub in s
Contains(s, sub) ==
    \E i \in 1..(Len(s) - Len(sub) + 1) : SubSeq(s, i, i + Len(sub) - 1) = sub

\* s.replace(old, new): every non-overlapping occurrence, left to right
RECURSIVE Replace(_, _, _)
Replace(s, old, new) ==
    IF Len(s) < Len(old) THEN s
    ELSE IF SubSeq(s, 1, Len(old)) = old
         THEN new \o Replace(SubSeq(s, Len(old) + 1, Len(s)), old, new)
         ELSE <<Head(s)>> \o Replace(Tail(s), old, new)

RECURSIVE LStrip(_)
LStrip(s) == IF s # <<>> /\ Head(s) \in Whitespace THEN LStrip(Tail(s)) ELSE s

RECURSIVE RStrip(_)
RStrip(s) ==
    IF s # <<>> /\ s[Len(s)] \in Whitespace
    THEN RStrip(SubSeq(s, 1, Len(s) - 1)) ELSE s

\* s.strip()
Strip(s) == RStrip(LStrip(s))

\* "".join(char for char in s if ord(char) < 128)
RECURSIVE AsciiOnly(_)
AsciiOnly(s) ==
    IF s = <<>> THEN <<>>
    ELSE (IF Head(s) \in NonAscii THEN <<>> ELSE <<Head(s)>>) \o AsciiOnly(Tail(s))

---------------------------------------------------------------------------
(* clean_date_time *)

clean_date_time(date_time) ==
    LET cleaned_date_time == AsciiOnly(date_time)
    IN  IF Contains(cleaned_date_time, <<"P", "M">>)
        THEN Replace(cleaned_date_time, <<"P", "M">>, <<" ", "P", "M">>)
        ELSE Replace(cleaned_date_time, <<"A", "M">>, <<" ", "A", "M">>)

---------------------------------------------------------------------------
(* The html document.  A container is the sequence of the child nodes of   *)
(* one <div class="content-cell ...">: links (<a>) and strings.            *)

A(text, href) == [kind |-> "a", text |-> text, href |-> href]
T(text) == [kind |-> "text", text |-> text, href |-> <<>>]

NoElement == <<>>

\* index of the first <a> of container c after index n, or 0
RECURSIVE NextA(_, _)
NextA(c, n) ==
    IF n >= Len(c) THEN 0
    ELSE IF c[n + 1].kind = "a" THEN n + 1 ELSE NextA(c, n + 1)

\* video.find("a"): <<index>> of the container's first link, or NoElement
find_a(c) == IF NextA(c, 0) = 0 THEN NoElement ELSE <<NextA(c, 0)>>

\* the first container after ci that holds a link, or 0
RECURSIVE NextContainerWithA(_, _)
NextContainerWithA(d, ci) ==
    IF ci >= Len(d) THEN 0
    ELSE IF NextA(d[ci + 1], 0) # 0 THEN ci + 1 ELSE NextContainerWithA(d, ci + 1)

\* element.find_next("a"): the next link in document order, which may lie
\* in a later container: <<container, index>> or NoElement
find_next_a(d, ci, n) ==
    IF NextA(d[ci], n) # 0 THEN <<ci, NextA(d[ci], n)>>
    ELSE IF NextContainerWithA(d, ci) # 0
         THEN <<NextContainerWithA(d, ci), NextA(d[NextContainerWithA(d, ci)], 0)>>
         ELSE NoElement

\* element.find_next_sibling(string=True): <<text>> of the next string among
\* the following siblings, or NoElement
RECURSIVE find_next_sibling_string(_, _)
find_next_sibling_string(c, n) ==
    IF n >= Len(c) THEN NoElement
    ELSE IF c[n + 1].kind = "text" THEN <<c[n + 1].text>>
         ELSE find_next_sibling_string(c, n + 1)

\* re.search(r"https?://(?:www\.)?youtube\.com/watch\?v=([a-zA-Z0-9_-]+)", title)
re_search_watch_url(title) ==
    \E i \in 1..Len(title) :
        /\ title[i] \in {HTTPS, HTTP}
        /\ \/ /\ i + 2 <= Len(title)
              /\ title[i + 1] = HOST
              /\ title[i + 2] \in IdChars
           \/ /\ i + 3 <= Len(title)
              /\ title[i + 1] = WWW
              /\ title[i + 2] = HOST
              /\ title[i + 3] \in IdChars

fieldnames ==
    << "title", "url", "video_duration", "channel_name", "channel_url",
       "date_time", "video_date_upload", "video_views", "video_likes",
       "video_dislikes", "video_comment_count", "video_description",
       "video_tags" >>

\* title = title_element.text.strip() if title_element else None
TitleOf(c) == IF find_a(c) = NoElement THEN <<>> ELSE Strip(c[find_a(c)[1]].text)

\* the drop rule: not title or re.search(...)
DroppedOnlyWithoutTitle(c) == TitleOf(c) = <<>>

Dropped(c) == TitleOf(c) = <<>> \/ re_search_watch_url(TitleOf(c))

\* the text after the channel link, stripped: date_time of the record
DateTimeOf(d, ci) ==
    LET title_element == find_a(d[ci])[1]
        channel_element == find_next_a(d, ci, title_element)
        date_time_element ==
            IF channel_element = NoElement THEN NoElement
            ELSE find_next_sibling_string(d[channel_element[1]], channel_element[2])
    IN  IF date_time_element = NoElement \/ date_time_element[1] = <<>>
        THEN <<>>
        ELSE Strip(date_time_element[1])

\* the dictionary appended for container ci, which is not dropped
RecordOf(d, ci) ==
    LET title_element == find_a(d[ci])[1]
        channel_element == find_next_a(d, ci, title_element)
        channel == d[channel_element[1]][channel_element[2]]
    IN  [ title |-> TitleOf(d[ci]),
          url |-> d[ci][title_element].href,
          video_duration |-> <<>>,
          channel_name |->
              IF channel_element = NoElement THEN <<>> ELSE Strip(channel.text),
          channel_url |->
              IF channel_element = NoElement THEN <<>> ELSE channel.href,
          date_time |-> DateTimeOf(d, ci),
          video_date_upload |-> <<>>,
          video_views |-> <<>>,
          video_likes |-> <<>>,
          video_dislikes |-> <<>>,
          video_comment_count |-> <<>>,
          video_description |-> <<>>,
          video_tags |-> <<>> ]

---------------------------------------------------------------------------
(* csv.DictWriter *)

RECURSIVE JoinCells(_)
JoinCells(cells) ==
    IF cells = <<>> THEN <<>>
    ELSE IF Len(cells) = 1 THEN cells[1]
         ELSE cells[1] \o <<COMMA>> \o JoinCells(Tail(cells))

\* one line of the file: the cells, comma-separated, and the line terminator
CsvLine(cells, lineterminator) == JoinCells(cells) \o lineterminator

\* writer.writeheader(): each column name is a one-token cell
HeaderCells == [i \in 1..Len(fieldnames) |-> <<fieldnames[i]>>]

\* writer.writerow(video): the values in fieldnames order, None as ""
RowCells(video) == [i \in 1..Len(fieldnames) |-> video[fieldnames[i]]]

RECURSIVE CsvLines(_, _)
CsvLines(rows, lineterminator) ==
    IF rows = <<>> THEN <<>>
    ELSE CsvLine(Head(rows), lineterminator) \o CsvLines(Tail(rows), lineterminator)

\* the file extract_data_from_html writes: lineterminator "\r\n"
DictWriterFile(records) ==
    CsvLine(HeaderCells, <<CR, LF>>)
    \o CsvLines([i \in 1..Len(records) |-> RowCells(records[i])], <<CR, LF>>)

---------------------------------------------------------------------------
(* Lines and cells of a csv text, as the csv module and pandas split it.   *)
(* Quoting is not modelled: no cell of the model holds a comma, a quote    *)
(* or a line break.                                                        *)

Min(a, b) == IF a <= b THEN a ELSE b

\* index of the first CR or LF of s, or 0
RECURSIVE FirstBreak(_, _)
FirstBreak(s, i) ==
    IF i > Len(s) THEN 0
    ELSE IF s[i] \in {CR, LF} THEN i ELSE FirstBreak(s, i + 1)

\* The first line of s, ended by LF, CR LF or CR.  A CR that is the last
\* token read so far ends a line only at the end of the file: the decoder
\* holds it back to see whether LF follows.
PopLine(s, atEof) ==
    LET i == FirstBreak(s, 1)
    IN  IF i = 0 \/ (s[i] = CR /\ i = Len(s) /\ ~atEof)
        THEN IF atEof /\ s # <<>>
             THEN [found |-> TRUE, line |-> s, rest |-> <<>>]
             ELSE [found |-> FALSE, line |-> <<>>, rest |-> s]
        ELSE LET n == IF s[i] = CR /\ i < Len(s) /\ s[i + 1] = LF
                      THEN i + 1 ELSE i
             IN  [found |-> TRUE, line |-> SubSeq(s, 1, i - 1),
                  rest |-> SubSeq(s, n + 1, Len(s))]

\* index of the first comma of s, or 0
RECURSIVE FirstComma(_, _)
FirstComma(s, i) ==
    IF i > Len(s) THEN 0
    ELSE IF s[i] = COMMA THEN i ELSE FirstComma(s, i + 1)

\* the cells of one line; a blank line has none
RECURSIVE SplitCells(_)
SplitCells(line) ==
    IF line = <<>> THEN <<>>
    ELSE LET i == FirstComma(line, 1)
         IN  IF i = 0 THEN <<line>>
             ELSE IF i = Len(line) THEN <<SubSeq(line, 1, i - 1), <<>> >>
                  ELSE <<SubSeq(line, 1, i - 1)>>
                       \o SplitCells(SubSeq(line, i + 1, Len(line)))

\* every non-blank line of a whole text, as cells
RECURSIVE SplitRows(_)
SplitRows(s) ==
    IF s = <<>> THEN <<>>
    ELSE LET l == PopLine(s, TRUE)
         IN  (IF l.line = <<>> THEN <<>> ELSE <<SplitCells(l.line)>>)
             \o SplitRows(l.rest)

\* position of a column name among the header cells, or 0
RECURSIVE ColIndexFrom(_, _, _)
ColIndexFrom(names, name, i) ==
    IF i > Len(names) THEN 0
    ELSE IF names[i] = <<name>> THEN i ELSE ColIndexFrom(names, name, i + 1)

ColIndex(names, name) == ColIndexFrom(names, name, 1)

---------------------------------------------------------------------------
(* The reader of extract_data_from_api: open(youtube_data, "r", newline="",*)
(* encoding="latin-1") under csv.DictReader.  The file object reads the    *)
(* file on disk in raw reads of at most BufSize at its own offset, when    *)
(* the text it holds has no complete line; the file on disk is whatever    *)
(* the latest df.to_csv left there.                                        *)

\* the next line of the file object: [eof, line, buf, pos]
RECURSIVE readline(_, _, _)
readline(buf, pos, f) ==
    LET l == PopLine(buf, FALSE)
    IN  IF l.found
        THEN [eof |-> FALSE, line |-> l.line, buf |-> l.rest, pos |-> pos]
        ELSE LET chunk == SubSeq(f, pos + 1, Min(pos + BufSize, Len(f)))
             IN  IF chunk # <<>>
                 THEN readline(buf \o chunk, pos + Len(chunk), f)
                 ELSE IF buf = <<>>
                      THEN [eof |-> TRUE, line |-> <<>>, buf |-> <<>>, pos |-> pos]
                      ELSE [eof |-> FALSE, line |-> PopLine(buf, TRUE).line,
                            buf |-> PopLine(buf, TRUE).rest, pos |-> pos]

\* next(csv.reader): the cells of the next non-blank line
RECURSIVE reader_next(_, _, _)
reader_next(buf, pos, f) ==
    LET r == readline(buf, pos, f)
    IN  IF r.eof \/ r.line # <<>>
        THEN [eof |-> r.eof, cells |-> SplitCells(r.line), buf |-> r.buf, pos |-> r.pos]
        ELSE reader_next(r.buf, r.pos, f)

\* next(csv.DictReader): the first call reads the fieldnames, then a row
DictReaderNext(names, buf, pos, f) ==
    IF names # <<>>
    THEN [names |-> names] @@ reader_next(buf, pos, f)
    ELSE LET h == reader_next(buf, pos, f)
         IN  IF h.eof THEN [names |-> names] @@ h
             ELSE [names |-> <<h.cells>>] @@ reader_next(h.buf, h.pos, f)

\* decoding as latin-1 what was written as utf-8
latin1(cell) == [i \in 1..Len(cell) |-> IF cell[i] \in NonAscii THEN "mojibake" ELSE cell[i]]

\* row["url"]: None (<<>>) for a row shorter than the fieldnames
RowUrl(names, cells) ==
    IF ColIndex(names, "url") <= Len(cells)
    THEN <<latin1(cells[ColIndex(names, "url")])>>
    ELSE <<>>

---------------------------------------------------------------------------
(* pandas: pd.read_csv and df.to_csv *)

\* strings pd.read_csv reads as missing (its default na_values), besides ""
NaValues == {<<"NA">>, <<"N/A">>, <<"NaN">>, <<"nan">>, <<"None">>, <<"null">>, <<"NULL">>}

\* a cell as the DataFrame holds it: NaN (<<>>) for a missing value.  A
\* number is held as the float to_csv wrote ("7.0") and written back the same.
PdCell(cell) == IF cell \in NaValues THEN <<>> ELSE cell

\* a data row as the DataFrame holds it: short rows padded with NaN
PdRow(cells, n) ==
    [i \in 1..n |-> IF i <= Len(cells) THEN PdCell(cells[i]) ELSE <<>>]

\* pd.read_csv(youtube_data): raises on an empty file (EmptyDataError) and on
\* a row with more cells than the header (ParserError)
read_csv(f) ==
    LET lines == SplitRows(f)
    IN  IF lines = <<>> \/ \E i \in 2..Len(lines) : Len(lines[i]) > Len(lines[1])
        THEN [raised |-> TRUE, names |-> <<>>, rows |-> <<>>]
        ELSE [raised |-> FALSE, names |-> lines[1],
              rows |-> [i \in 1..(Len(lines) - 1) |->
                            PdRow(lines[i + 1], Len(lines[1]))]]

\* os.linesep, the line terminator of to_csv
linesep == <<LF>>

\* df.to_csv(youtube_data, index=False): NaN is written as ""
to_csv(df) == CsvLine(df.names, linesep) \o CsvLines(df.rows, linesep)

---------------------------------------------------------------------------
(* The field mapping of extract_data_from_api (lines 209-236) *)

Digits == <<"0", "1", "2", "3", "4", "5", "6", "7", "8", "9">>

\* str(n) of a natural number
RECURSIVE Str(_)
Str(n) == IF n < 10 THEN Digits[n + 1] ELSE Str(n \div 10) \o Digits[(n % 10) + 1]

\* f"{n:02d}"
Pad2(n) == IF n < 10 THEN "0" \o Str(n) ELSE Str(n)

\* clean_duration_time: the duration is given as the hours, minutes and
\* seconds isodate.parse_duration reads from "PT#H#M#S"; <<>> is the empty
\* string, which parse_duration rejects.  <<>> stands for the exception.
clean_duration_time(duration) ==
    IF duration = <<>> THEN <<>>
    ELSE LET total_seconds == 3600 * duration[1].H + 60 * duration[1].M + duration[1].S
             hours == total_seconds \div 3600
             minutes == (total_seconds % 3600) \div 60
             seconds == total_seconds % 60
         IN  << <<Pad2(hours) \o ":" \o Pad2(minutes) \o ":" \o Pad2(seconds)>> >>

\* process_datetime: datetime.fromisoformat of <<date, "T", time, "Z">>, then
\* strftime("%Y-%m-%d %H:%M:%S").  <<>> stands for the ValueError.
process_datetime(datetime_str) ==
    IF Len(datetime_str) = 4 /\ datetime_str[2] = "T" /\ datetime_str[4] = "Z"
    THEN << <<datetime_str[1] \o " " \o datetime_str[3]>> >>
    ELSE <<>>

\* d.get(key, default) of an optional entry
Get(entry, default) == IF entry = <<>> THEN default ELSE entry[1]

\* int(count) stored in a float64 column, as to_csv writes it
FloatCell(n) == <<Str(n) \o ".0">>

\* The eight values assigned, in the order of the column list of lines
\* 199-206; <<>> when building the tuple raises.
MappedValues(item) ==
    LET video_date_upload == process_datetime(Get(item.publishedAt, <<>>))
        video_duration == clean_duration_time(item.duration)
    IN  IF video_date_upload = <<>> \/ video_duration = <<>> THEN <<>>
        ELSE << [ video_date_upload |-> video_date_upload[1],
                  video_views |-> FloatCell(Get(item.viewCount, 0)),
                  video_likes |-> FloatCell(Get(item.likeCount, 0)),
                  video_dislikes |-> FloatCell(Get(item.dislikeCount, 0)),
                  video_comment_count |-> FloatCell(Get(item.commentCount, 0)),
                  video_description |-> Get(item.description, <<>>),
                  video_tags |-> JoinCells(Get(item.tags, <<>>)),
                  video_duration |-> video_duration[1] ] >>

MetadataColumns ==
    { "video_date_upload", "video_views", "video_likes", "video_dislikes",
      "video_comment_count", "video_description", "video_tags", "video_duration" }

\* df.loc[df["url"] == video_url, [columns]] = values
LocAssign(df, video_url, values) ==
    LET u == ColIndex(df.names, "url")
    IN  [df EXCEPT !.rows =
            [i \in 1..Len(df.rows) |->
                IF df.rows[i][u] = video_url
                THEN [k \in 1..Len(df.names) |->
                        IF df.names[k][1] \in MetadataColumns
                        THEN values[df.names[k][1]]
                        ELSE df.rows[i][k]]
                ELSE df.rows[i]]]

\* Lines 194-238 for a response that holds an item: read the table, assign,
\* write it back.  Any exception leaves the file as it is.
WriteBackAlways(f, video_url, item) ==
    LET df == read_csv(f)
        values == MappedValues(item)
    IN  IF df.raised THEN [raised |-> TRUE, file |-> f]
        ELSE IF values = <<>> THEN [raised |-> TRUE, file |-> to_csv(df)]
             ELSE [raised |-> FALSE,
                   file |-> to_csv(LocAssign(df, video_url, values[1]))]

UpdateOnlyCurrentRow(f, video_url, item) ==
    LET df == read_csv(f)
        values == MappedValues(item)
        u == ColIndex(df.names, "url")
        first == CHOOSE i \in 1..Len(df.rows) :
                    /\ df.rows[i][u] = video_url
                    /\ \A j \in 1..(i - 1) : df.rows[j][u] # video_url
    IN  IF df.raised \/ values = <<>> \/ ColIndex(df.names, "url") = 0
        THEN [raised |-> TRUE, file |-> f]
        ELSE IF \A i \in 1..Len(df.rows) : df.rows[i][u] # video_url
             THEN [raised |-> FALSE, file |-> to_csv(df)]
             ELSE [raised |-> FALSE,
                   file |-> to_csv([df EXCEPT !.rows[first] =
                                LocAssign(df, video_url, values[1]).rows[first]])]

Update(f, video_url, item) ==
    LET df == read_csv(f)
        values == MappedValues(item)
    IN  IF df.raised \/ values = <<>> \/ ColIndex(df.names, "url") = 0
        THEN [raised |-> TRUE, file |-> f]
        ELSE [raised |-> FALSE,
              file |-> to_csv(LocAssign(df, video_url, values[1]))]

\* extract_video_id: <<>> is None, <<id>> the identifier (which may be "")
extract_video_id(video_url) ==
    IF video_url # <<>> /\ video_url[1] # <<>> /\ Contains(video_url[1], WatchPrefix)
    THEN <<Replace(video_url[1], WatchPrefix, <<>>)>>
    ELSE <<>>

\* if video_id:
ValidId(video_id) == video_id # <<>> /\ video_id[1] # <<>>

---------------------------------------------------------------------------
(* Inputs *)

SeqsUpTo(S, n) == UNION {[1..k -> S] : k \in 0..n}

VideoHref(id) == WatchPrefix \o <<id>>
MobileHref(id) == <<HTTPS, MOBILE, HOST, id>>
ChannelLink == A(<<"c">>, <<"channel/c">>)
DatePM == <<"6", NNBSP, "P", "M">>
Date24 == <<"1", "8">>

\* a watched video, as the export lists it
Watched(title, href, date) == <<A(title, href), ChannelLink, T(date)>>

\* a removed video: the link text is the watch url itself, no channel link
Removed(id) == <<A(VideoHref(id), VideoHref(id)), T(DatePM)>>

\* documents given to the extractor alone
ExtractContainers ==
    { Watched(<<"t">>, VideoHref("a"), DatePM),
      Watched(<<" ", "t", " ">>, VideoHref("b"), Date24),
      Watched(<<" ">>, VideoHref("a"), DatePM),
      Watched(<<"t", HTTP, HOST, "7">>, VideoHref("a"), DatePM),
      Watched(<<HTTPS, WWW, HOST, "!">>, VideoHref("a"), Date24),
      Removed("a"),
      <<A(<<"t">>, VideoHref("b"))>>,
      <<T(<<"x">>)>>,
      <<>> }

ExtractDocs == SeqsUpTo(ExtractContainers, MaxContainers)

\* documents given to the whole pipeline
PipelineContainers ==
    { Watched(<<"t">>, VideoHref("a"), DatePM),
      Watched(<<"t">>, VideoHref("b"), DatePM),
      Watched(<<"NA">>, MobileHref("a"), DatePM),
      Removed("b"),
      <<>> }

PipelineDocs == SeqsUpTo(PipelineContainers, MaxRows)

Absent == <<>>

FullItem ==
    [ publishedAt |-> << <<"2017-11-13", "T", "06:06:22", "Z">> >>,
      description |-> << <<"d">> >>,
      tags |-> << << <<"g">> >> >>,
      duration |-> << [H |-> 1, M |-> 2, S |-> 3] >>,
      viewCount |-> <<7>>, likeCount |-> <<1>>,
      dislikeCount |-> Absent, commentCount |-> <<0>> ]

\* only what the mapping cannot do without
MinimalItem ==
    [ publishedAt |-> << <<"2020-04-10", "T", "05:36:02", "Z">> >>,
      description |-> Absent, tags |-> Absent,
      duration |-> << [H |-> 0, M |-> 75, S |-> 25] >>,
      viewCount |-> Absent, likeCount |-> Absent,
      dislikeCount |-> Absent, commentCount |-> Absent ]

NoPublishedAtItem == [FullItem EXCEPT !.publishedAt = Absent]

NoDurationItem == [MinimalItem EXCEPT !.duration = Absent]

\* what videos().list(...).execute() does for one identifier
Found(item) == [kind |-> "item", item |-> item]
NoItems == [kind |-> "noitem", item |-> MinimalItem]
Raises == [kind |-> "raise", item |-> MinimalItem]

Outcomes ==
    { Found(FullItem), Found(MinimalItem), Found(NoPublishedAtItem),
      Found(NoDurationItem), NoItems, Raises }

ServiceIds == {<<"a">>, <<"b">>}

\* every outcome for identifier a; b is found or is not
Services ==
    { [id \in ServiceIds |-> IF id = <<"a">> THEN x ELSE y] :
        x \in Outcomes, y \in {Found(FullItem), NoItems} }

\* the response for an identifier; the service knows no other identifier
Lookup(video_id) ==
    IF video_id \in DOMAIN service THEN service[video_id] ELSE NoItems

Entry(level, msg, arg) == [level |-> level, msg |-> msg, arg |-> arg]

---------------------------------------------------------------------------
(* extract_data_from_html *)

\* lines 64-70: the container is skipped and a warning logged
SkipContainer ==
    /\ pc = "html"
    /\ vi < Len(doc)
    /\ Dropped(doc[vi + 1])
    /\ log' = Append(log, Entry("warning", "No title found for a video element.", <<>>))
    /\ vi' = vi + 1
    /\ UNCHANGED <<doc, videos_data, file, pc, service, rpos, rbuf, seen, before,
                   cur, run, file0, file1, rnames, last, raw, cleaned>>

\* lines 72-111: the record is appended
EmitRecord ==
    /\ pc = "html"
    /\ vi < Len(doc)
    /\ ~Dropped(doc[vi + 1])
    /\ videos_data' = Append(videos_data, RecordOf(doc, vi + 1))
    /\ vi' = vi + 1
    /\ UNCHANGED <<doc, file, log, pc, service, rpos, rbuf, seen, before,
                   cur, run, file0, file1, rnames, last, raw, cleaned>>

\* lines 114-137: the csv file is written
WriteCsv ==
    /\ pc = "html"
    /\ vi = Len(doc)
    /\ file' = DictWriterFile(videos_data)
    /\ file0' = DictWriterFile(videos_data)
    /\ pc' = "api"
    /\ UNCHANGED <<doc, vi, videos_data, log, service, rpos, rbuf, seen, before,
                   cur, run, file1, rnames, last, raw, cleaned>>

---------------------------------------------------------------------------
(* extract_data_from_api *)

\* lines 161-162: the file is opened under a DictReader
OpenReader ==
    /\ pc = "api"
    /\ rpos' = 0
    /\ rbuf' = <<>>
    /\ rnames' = <<>>
    /\ pc' = "loop"
    /\ UNCHANGED <<doc, vi, videos_data, file, log, service, seen, before,
                   cur, run, file0, file1, last, raw, cleaned>>

\* lines 164-172: the reader yields a row
FetchRow ==
    /\ pc = "loop"
    /\ LET r == DictReaderNext(rnames, rbuf, rpos, file)
           video_url == RowUrl(r.names[1], r.cells)
       IN  /\ ~r.eof
           /\ rnames' = r.names
           /\ rbuf' = r.buf
           /\ rpos' = r.pos
           /\ cur' = <<video_url>>
           /\ seen' = Append(seen, video_url)
           /\ log' = Append(log,
                        IF video_url # <<>>
                        THEN Entry("debug", "Processing video URL", video_url)
                        ELSE Entry("warning", "Encountered None value for video URL", <<>>))
    /\ before' = file
    /\ pc' = "row"
    /\ UNCHANGED <<doc, vi, videos_data, file, service, run, file0, file1,
                   last, raw, cleaned>>

\* line 164: the reader is exhausted and the function returns
StopIteration ==
    /\ pc = "loop"
    /\ LET r == DictReaderNext(rnames, rbuf, rpos, file)
       IN  /\ r.eof
           /\ rnames' = r.names
           /\ rbuf' = r.buf
           /\ rpos' = r.pos
    /\ file1' = IF run = 1 THEN file ELSE file1
    /\ pc' = "done"
    /\ UNCHANGED <<doc, vi, videos_data, file, log, service, seen, before,
                   cur, run, file0, last, raw, cleaned>>

RowDone(outcome) ==
    /\ pc' = "loop"
    /\ cur' = <<>>
    /\ last' = outcome
    /\ UNCHANGED <<doc, vi, videos_data, service, rpos, rbuf, seen, before,
                   run, file0, file1, rnames, raw, cleaned>>

\* lines 174-176, 250-259: no identifier
InvalidUrl ==
    /\ pc = "row"
    /\ ~ValidId(extract_video_id(cur[1]))
    /\ log' = log
              \o (IF extract_video_id(cur[1]) = <<>>
                  THEN <<Entry("warning", "Invalid or missing video URL", cur[1])>>
                  ELSE <<>>)
              \o <<Entry("warning", "Failed to extract video ID from URL", cur[1])>>
    /\ file' = file
    /\ RowDone("invalid")

\* lines 186, 239-243: the response holds no item
NoItemsFound ==
    /\ pc = "row"
    /\ ValidId(extract_video_id(cur[1]))
    /\ Lookup(extract_video_id(cur[1])[1]).kind = "noitem"
    /\ log' = Append(log, Entry("warning", "No video items found in the response for video ID",
                                extract_video_id(cur[1])))
    /\ file' = file
    /\ RowDone("noitem")

\* lines 179-183, 244-249: the request raises
LookupRaises ==
    /\ pc = "row"
    /\ ValidId(extract_video_id(cur[1]))
    /\ Lookup(extract_video_id(cur[1])[1]).kind = "raise"
    /\ log' = Append(log, Entry("warning", "An error occurred while processing video ID",
                                extract_video_id(cur[1])))
    /\ file' = file
    /\ RowDone("lookup_raised")

\* lines 186-236, 244-249: reading the table or building the values raises
UpdateRaises ==
    /\ pc = "row"
    /\ ValidId(extract_video_id(cur[1]))
    /\ Lookup(extract_video_id(cur[1])[1]).kind = "item"
    /\ LET u == Update(file, cur[1][1], Lookup(extract_video_id(cur[1])[1]).item)
       IN  /\ u.raised
           /\ file' = u.file
    /\ log' = Append(log, Entry("warning", "An error occurred while processing video ID",
                                extract_video_id(cur[1])))
    /\ RowDone("update_raised")

\* lines 186-238: the matching rows are updated and the table rewritten
UpdateRows ==
    /\ pc = "row"
    /\ ValidId(extract_video_id(cur[1]))
    /\ Lookup(extract_video_id(cur[1])[1]).kind = "item"
    /\ LET u == Update(file, cur[1][1], Lookup(extract_video_id(cur[1])[1]).item)
       IN  /\ ~u.raised
           /\ file' = u.file
    /\ log' = log
    /\ RowDone("updated")

\* extract_data_from_api is called again on the table it left
Rerun ==
    /\ pc = "done"
    /\ run = 1
    /\ run' = 2
    /\ rpos' = 0
    /\ rbuf' = <<>>
    /\ rnames' = <<>>
    /\ seen' = <<>>
    /\ last' = "none"
    /\ pc' = "loop"
    /\ UNCHANGED <<doc, vi, videos_data, file, log, service, before, cur,
                   file0, file1, raw, cleaned>>

---------------------------------------------------------------------------
(* clean_date_time applied to one string *)

RawAlphabet == {"6", " ", NNBSP, "A", "P", "M"}

Clean ==
    /\ pc = "clean"
    /\ cleaned' = <<clean_date_time(raw)>>
    /\ pc' = "cleaned"
    /\ UNCHANGED <<doc, vi, videos_data, file, log, service, rpos, rbuf, seen,
                   before, cur, run, file0, file1, rnames, last, raw>>

---------------------------------------------------------------------------
(* Specifications *)

Idle ==
    /\ vi = 0 /\ videos_data = <<>> /\ file = <<>> /\ log = <<>>
    /\ rpos = 0 /\ rbuf = <<>> /\ seen = <<>> /\ before = <<>> /\ cur = <<>>
    /\ run = 1 /\ file0 = <<>> /\ file1 = <<>> /\ rnames = <<>>
    /\ last = "none" /\ cleaned = <<>>

\* main(): extraction, then enrichment
Init ==
    /\ doc \in PipelineDocs
    /\ service \in Services
    /\ raw = <<>>
    /\ pc = "html"
    /\ Idle

Next ==
    \/ SkipContainer
    \/ EmitRecord
    \/ WriteCsv
    \/ OpenReader
    \/ FetchRow
    \/ StopIteration
    \/ InvalidUrl
    \/ NoItemsFound
    \/ LookupRaises
    \/ UpdateRaises
    \/ UpdateRows

Spec == Init /\ [][Next]_vars

\* main(), then extract_data_from_api once more on the table it left
NextRerun == Next \/ Rerun

SpecRerun == Init /\ [][NextRerun]_vars

\* extract_data_from_html alone
InitExtract ==
    /\ doc \in ExtractDocs
    /\ service = [id \in ServiceIds |-> NoItems]
    /\ raw = <<>>
    /\ pc = "html"
    /\ Idle

NextExtract == SkipContainer \/ EmitRecord \/ WriteCsv

SpecExtract == InitExtract /\ [][NextExtract]_vars

\* clean_date_time alone
InitClean ==
    /\ doc = <<>>
    /\ service = [id \in ServiceIds |-> NoItems]
    /\ raw \in SeqsUpTo(RawAlphabet, MaxRawLen)
    /\ pc = "clean"
    /\ Idle

NextClean == Clean

SpecClean == InitClean /\ [][NextClean]_vars

---------------------------------------------------------------------------
(* Views of the state used by the properties *)

\* the data rows of a csv text as the csv module splits it, header excluded
DataRows(f) == IF SplitRows(f) = <<>> THEN <<>> ELSE Tail(SplitRows(f))

\* position of a column in the fixed column list
Col(name) == ColIndex(HeaderCells, name)

FrameColumns == {"title", "url", "channel_name", "channel_url", "date_time"}

PassDone == pc = "done" /\ run = 1

\* the url of a row contains the canonical prefix, the service returns an
\* item for its identifier and the item's fields map without error
Enrichable(url) ==
    /\ ValidId(extract_video_id(<<url>>))
    /\ Lookup(extract_video_id(<<url>>)[1]).kind = "item"
    /\ MappedValues(Lookup(extract_video_id(<<url>>)[1]).item) # <<>>

MappedFor(url) == MappedValues(Lookup(extract_video_id(<<url>>)[1]).item)[1]

\* the metadata cells of a row are the mapped values of its url
HoldsMapped(cells, url) ==
    \A k \in 1..Len(fieldnames) :
        fieldnames[k] \in MetadataColumns => cells[k] = MappedFor(url)[fieldnames[k]]

\* the loop body that ended last was a successful update
JustUpdated == pc \in {"loop", "done"} /\ last = "updated" /\ seen # <<>>

\* the video_url of the loop body that ended last
LastUrl == seen[Len(seen)][1]

HasLink(c) == \E n \in 1..Len(c) : c[n].kind = "a"

FirstLink(c) ==
    c[CHOOSE n \in 1..Len(c) :
        c[n].kind = "a" /\ \A m \in 1..(n - 1) : c[m].kind # "a"]

\* the claim's condition for a container to yield a record
Kept(c) ==
    /\ HasLink(c)
    /\ Strip(FirstLink(c).text) # <<>>
    /\ ~re_search_watch_url(Strip(FirstLink(c).text))

\* the containers among the first n that satisfy Kept, in document order
RECURSIVE KeptIndices(_, _)
KeptIndices(d, n) ==
    IF n = 0 THEN <<>>
    ELSE KeptIndices(d, n - 1) \o (IF Kept(d[n]) THEN <<n>> ELSE <<>>)

Warnings(l, msg) == {i \in 1..Len(l) : l[i].level = "warning" /\ l[i].msg = msg}

---------------------------------------------------------------------------
(* Properties *)

\* C1: when the enrichment pass is finished, every row whose url contains
\* the canonical prefix, and for whose identifier the service returns an
\* item that maps without error, holds the mapped values in the file.
C1_EveryEnrichableRowEnriched ==
    PassDone =>
        /\ Len(DataRows(file)) = Len(DataRows(file0))
        /\ \A i \in 1..Len(DataRows(file0)) :
              Enrichable(DataRows(file0)[i][Col("url")]) =>
                  HoldsMapped(DataRows(file)[i], DataRows(file0)[i][Col("url")])

C3_EveryRowVisited ==
    PassDone =>
        \A i \in 1..Len(DataRows(file0)) :
            \E n \in 1..Len(seen) : seen[n] = <<latin1(DataRows(file0)[i][Col("url")])>>

\* C4: the date_time of every record is clean_date_time of the text that
\* follows the channel link, so it holds no non-ASCII character.
C4_DateTimeIsCleaned ==
    /\ Len(videos_data) = Len(KeptIndices(doc, vi))
    /\ \A k \in 1..Len(videos_data) :
          /\ videos_data[k].date_time
                = clean_date_time(DateTimeOf(doc, KeptIndices(doc, vi)[k]))
          /\ \A n \in 1..Len(videos_data[k].date_time) :
                videos_data[k].date_time[n] \notin NonAscii

\* C5: when the pass is finished, the header and the title, url,
\* channel_name, channel_url and date_time of every row are the ones the
\* extractor wrote.
C5_FrameColumnsKept ==
    PassDone =>
        /\ SplitRows(file)[1] = SplitRows(file0)[1]
        /\ Len(DataRows(file)) = Len(DataRows(file0))
        /\ \A i \in 1..Len(DataRows(file0)) :
              \A k \in 1..Len(fieldnames) :
                  fieldnames[k] \in FrameColumns =>
                      DataRows(file)[i][k] = DataRows(file0)[i][k]

\* C6: when the pass is finished, a row whose url does not contain the
\* canonical prefix is as the extractor wrote it, and a warning naming its
\* url was logged.
C6_InvalidUrlRowUntouched ==
    PassDone =>
        \A i \in 1..Len(DataRows(file0)) :
            ~Contains(DataRows(file0)[i][Col("url")], WatchPrefix) =>
                /\ DataRows(file)[i] = DataRows(file0)[i]
                /\ \E n \in Warnings(log, "Invalid or missing video URL") :
                      log[n].arg = <<latin1(DataRows(file0)[i][Col("url")])>>

\* C7: a second pass with the same service leaves the file as the first
\* pass left it.
C7_SecondPassChangesNothing ==
    (pc = "done" /\ run = 2) => file = file1

EndsWithMarker(s) ==
    Len(s) >= 2 /\ SubSeq(s, Len(s) - 1, Len(s)) \in {<<"A", "M">>, <<"P", "M">>}

OneSpaceBeforeMarker(s) ==
    LET body == AsciiOnly(SubSeq(s, 1, Len(s) - 2))
        marker == SubSeq(s, Len(s) - 1, Len(s))
        spaced == body # <<>> /\ body[Len(body)] = " "
                  /\ s[Len(s) - 2] = " "
    IN  IF spaced THEN body \o marker ELSE body \o <<" ">> \o marker

\* C9: for a string ending in AM or PM the result is the input without its
\* non-ASCII characters and with exactly one space before the marker; for a
\* string without AM and PM it is the input without its non-ASCII characters.
C9_ExactlyOneSpaceBeforeMarker ==
    cleaned # <<>> =>
        /\ EndsWithMarker(raw) => cleaned[1] = OneSpaceBeforeMarker(raw)
        /\ (~Contains(AsciiOnly(raw), <<"A", "M">>) /\ ~Contains(AsciiOnly(raw), <<"P", "M">>))
              => cleaned[1] = AsciiOnly(raw)

\* C10: a row whose lookup finds no item or raises, or whose table read or
\* field mapping raises, leaves the file as it was when the row was yielded.
C10_FailedRowLeavesFile ==
    (pc = "loop" /\ last \in {"noitem", "lookup_raised", "update_raised"})
        => file = before

\* C10 witness: the field mapping has raised for a row of a table that an
\* earlier row's update had already rewritten
C10_MappingRaisedAfterAnUpdate ==
    /\ pc = "loop"
    /\ last = "update_raised"
    /\ file # file0

=============================================================================
